---- MODULE Spec2Model ----
(***************************************************************************)
(* A model of PythonHelper (src/pythonHelper.py): the JSON file helpers,   *)
(* the logging bootstrap, the HTTP wrappers and the data helpers, each     *)
(* with the library calls it makes (json, open, logging, requests,         *)
(* pandas) modelled by what those calls do.                                *)
(*                                                                         *)
(* Text is a sequence of one-character strings.  A Python value is a       *)
(* pair <<type, payload>>, o[1] its type and o[2] its payload; None and    *)
(* JSON null are the same value, as in Python.                             *)
(***************************************************************************)
EXTENDS Integers, Sequences, FiniteSets, TLC

VARIABLES
    fs,          \* the file system: path -> [exists, data]
    handlers,    \* logging.root.handlers, in the order they were added
    rootLevel,   \* logging.root.level
    constructed, \* how many PythonHelper instances have been constructed
    firstLog,    \* the log_file argument of the first construction
    op,          \* the helper called last
    arg,         \* its arguments (the caller's objects, as they are after the call)
    result,      \* its return value
    raised,      \* the exception it let propagate to the caller ("none" if it returned)
    emitted,     \* the logging calls it made
    delivered,   \* for each of those calls, the sinks the record was written to
    writers,     \* the concurrent write_json calls: position, buffer, file offset
    overlapped,  \* whether two of those calls were ever in progress together
    closedOrder, \* those calls, in the order they closed the file
    input        \* the value the caller holds and passes to the helpers

vars == <<fs, handlers, rootLevel, constructed, firstLog, op, arg, result, raised,
          emitted, delivered, writers, overlapped, closedOrder, input>>

(***************************************************************************)
(* Python values                                                           *)
(***************************************************************************)
None == <<"null", <<>>>>
PyBool(b) == <<"bool", b>>
PyInt(n) == <<"int", n>>
PyStr(s) == <<"str", s>>
PyList(items) == <<"list", items>>
\* a dict is its items in insertion order, each [k |-> key, val |-> value]
PyDict(items) == <<"dict", items>>
\* a value json cannot serialize (a set, a datetime, an arbitrary object)
PyObject == <<"object", <<>>>>

Range(s) == {s[i] : i \in 1..Len(s)}

RECURSIVE Flatten(_)
Flatten(chunks) ==
    IF chunks = <<>> THEN <<>> ELSE Head(chunks) \o Flatten(Tail(chunks))

(***************************************************************************)
(* json.dump(data, f, indent=4): the chunks JSONEncoder.iterencode yields  *)
(***************************************************************************)
IndentWidth == 4

Digits == <<"0", "1", "2", "3", "4", "5", "6", "7", "8", "9">>

RECURSIVE NatRepr(_)
NatRepr(n) ==
    IF n < 10 THEN <<Digits[n + 1]>>
    ELSE NatRepr(n \div 10) \o <<Digits[(n % 10) + 1]>>

\* int.__repr__
IntRepr(n) == IF n < 0 THEN <<"-">> \o NatRepr(-n) ELSE NatRepr(n)

\* an encoder that escapes nothing
EscapeCharRaw(c) == <<c>>

\* one character of a string, as ensure_ascii=True writes it
EscapeChar(c) ==
    CASE c = "\"" -> <<"\\", "\"">>
      [] c = "\\" -> <<"\\", "\\">>
      [] c = "\n" -> <<"\\", "n">>
      [] c = "e-acute" -> <<"\\", "u", "0", "0", "e", "9">>
      [] OTHER -> <<c>>

RECURSIVE EscapeAll(_)
EscapeAll(s) == IF s = <<>> THEN <<>> ELSE EscapeChar(Head(s)) \o EscapeAll(Tail(s))

\* py_encode_basestring_ascii
EncodeStr(s) == <<"\"">> \o EscapeAll(s) \o <<"\"">>

RECURSIVE Spaces(_)
Spaces(n) == IF n <= 0 THEN <<>> ELSE <<" ">> \o Spaces(n - 1)

NewlineIndent(lvl) == <<"\n">> \o Spaces(IndentWidth * lvl)

IsScalar(o) == o[1] \in {"null", "bool", "int", "str"}

ScalarRepr(o) ==
    CASE o[1] = "str" -> EncodeStr(o[2])
      [] o[1] = "null" -> <<"n", "u", "l", "l">>
      [] o[1] = "bool" -> IF o[2] THEN <<"t", "r", "u", "e">> ELSE <<"f", "a", "l", "s", "e">>
      [] o[1] = "int" -> IntRepr(o[2])

\* the key of a dict item as the encoder writes it: a str as it is, an int,
\* bool or None coerced to its JSON text, anything else is a TypeError
KeyOk(k) == k[1] \in {"str", "int", "bool", "null"}
KeyText(k) == IF k[1] = "str" THEN k[2] ELSE ScalarRepr(k)

\* A generator's run: the chunks it yields and the exception that ends it.
Yielded(chunks) == [chunks |-> chunks, exc |-> "none"]
Then(chunks, rest) == [chunks |-> chunks \o rest.chunks, exc |-> rest.exc]

RECURSIVE Iterencode(_, _), ListItems(_, _, _), DictItems(_, _, _)

\* _iterencode_list, from item i on, one level deeper than lvl
ListItems(lst, i, lvl) ==
    IF i > Len(lst)
    THEN Yielded(<<NewlineIndent(lvl), <<"]">>>>)
    ELSE LET buf == IF i = 1 THEN <<"[">> \o NewlineIndent(lvl + 1)
                    ELSE <<",">> \o NewlineIndent(lvl + 1)
             value == lst[i]
         IN  IF IsScalar(value)
             THEN Then(<<buf \o ScalarRepr(value)>>, ListItems(lst, i + 1, lvl))
             ELSE LET sub == Iterencode(value, lvl + 1)
                  IN  IF sub.exc # "none" THEN Then(<<buf>>, sub)
                      ELSE Then(<<buf>> \o sub.chunks, ListItems(lst, i + 1, lvl))

\* _iterencode_dict, from item i on
DictItems(dct, i, lvl) ==
    IF i > Len(dct)
    THEN Yielded(<<NewlineIndent(lvl), <<"}">>>>)
    ELSE LET key == dct[i].k
             value == dct[i].val
             sep == IF i = 1 THEN <<>> ELSE <<<<",">> \o NewlineIndent(lvl + 1)>>
         IN  IF ~KeyOk(key) THEN [chunks |-> <<>>, exc |-> "TypeError"]
             ELSE LET head == sep \o <<EncodeStr(KeyText(key)), <<":", " ">>>>
                  IN  IF IsScalar(value)
                      THEN Then(head \o <<ScalarRepr(value)>>, DictItems(dct, i + 1, lvl))
                      ELSE LET sub == Iterencode(value, lvl + 1)
                           IN  IF sub.exc # "none" THEN Then(head, sub)
                               ELSE Then(head \o sub.chunks, DictItems(dct, i + 1, lvl))

\* _iterencode(o, _current_indent_level)
Iterencode(o, lvl) ==
    CASE IsScalar(o) -> Yielded(<<ScalarRepr(o)>>)
      [] o[1] = "list" ->
            IF o[2] = <<>> THEN Yielded(<<<<"[", "]">>>>) ELSE ListItems(o[2], 1, lvl)
      [] o[1] = "dict" ->
            IF o[2] = <<>> THEN Yielded(<<<<"{", "}">>>>)
            ELSE Then(<<<<"{">>, NewlineIndent(lvl + 1)>>, DictItems(o[2], 1, lvl))
      [] OTHER -> [chunks |-> <<>>, exc |-> "TypeError"]

\* the text of a document that serializes without error
Dumps(o) == Flatten(Iterencode(o, 0).chunks)

(***************************************************************************)
(* json.load(f): JSONDecoder.decode on the text of the file                *)
(***************************************************************************)
Failed == [ok |-> FALSE, val |-> None, end |-> 0]
Parsed(val, end) == [ok |-> TRUE, val |-> val, end |-> end]

At(s, i) == IF i >= 1 /\ i <= Len(s) THEN s[i] ELSE "EOF"

RECURSIVE SkipWs(_, _)
SkipWs(s, i) ==
    IF At(s, i) \in {" ", "\t", "\n", "\r"} THEN SkipWs(s, i + 1) ELSE i

Matches(s, i, word) ==
    /\ i + Len(word) - 1 <= Len(s)
    /\ \A j \in 1..Len(word) : s[i + j - 1] = word[j]

DigitValue(c) == CHOOSE d \in 0..9 : Digits[d + 1] = c
IsDigit(c) == c \in Range(Digits)

\* the character a backslash escape stands for
Unescape(c) ==
    CASE c = "n" -> "\n"
      [] c = "t" -> "\t"
      [] c = "r" -> "\r"
      [] OTHER -> c

RECURSIVE ScanStr(_, _, _)
\* py_scanstring (strict) from position i, just after the opening quote
ScanStr(s, i, acc) ==
    LET c == At(s, i) IN
    CASE c = "EOF" -> Failed
      [] c = "\"" -> Parsed(acc, i + 1)
      [] c = "\\" ->
            LET esc == At(s, i + 1) IN
            IF esc = "u"
            THEN IF Matches(s, i + 2, <<"0", "0", "e", "9">>)
                 THEN ScanStr(s, i + 6, Append(acc, "e-acute"))
                 ELSE Failed
            ELSE IF esc \in {"\"", "\\", "/", "n", "t", "r"}
                 THEN ScanStr(s, i + 2, Append(acc, Unescape(esc)))
                 ELSE Failed
      [] c \in {"\n", "\t", "\r", "NUL"} -> Failed
      [] OTHER -> ScanStr(s, i + 1, Append(acc, c))

RECURSIVE ScanDigits(_, _, _)
ScanDigits(s, i, n) ==
    IF IsDigit(At(s, i)) THEN ScanDigits(s, i + 1, 10 * n + DigitValue(s[i]))
    ELSE Parsed(n, i)

\* NUMBER_RE, integer part: -?(0|[1-9]\d*)
ScanNumber(s, i) ==
    LET neg == At(s, i) = "-"
        j == IF neg THEN i + 1 ELSE i
    IN  IF ~IsDigit(At(s, j)) THEN Failed
        ELSE LET n == IF s[j] = "0" THEN Parsed(0, j + 1) ELSE ScanDigits(s, j, 0)
             IN  Parsed(PyInt(IF neg THEN -n.val ELSE n.val), n.end)

\* dict(pairs): a repeated key keeps its first position and takes the last value
RECURSIVE PutItem(_, _, _)
PutItem(items, k, val) ==
    IF items = <<>> THEN <<[k |-> k, val |-> val]>>
    ELSE IF Head(items).k = k THEN <<[k |-> k, val |-> val]>> \o Tail(items)
    ELSE <<Head(items)>> \o PutItem(Tail(items), k, val)

RECURSIVE ScanOnce(_, _), ArrayItems(_, _, _), ObjectItems(_, _, _)

\* JSONArray after the first value position
ArrayItems(s, i, acc) ==
    LET r == ScanOnce(s, i) IN
    IF ~r.ok THEN Failed
    ELSE LET j == SkipWs(s, r.end) IN
         CASE At(s, j) = "]" -> Parsed(PyList(Append(acc, r.val)), j + 1)
           [] At(s, j) = "," -> ArrayItems(s, SkipWs(s, j + 1), Append(acc, r.val))
           [] OTHER -> Failed

\* JSONObject at the opening quote of a key
ObjectItems(s, i, acc) ==
    IF At(s, i) # "\"" THEN Failed
    ELSE LET k == ScanStr(s, i + 1, <<>>) IN
         IF ~k.ok THEN Failed
         ELSE LET j == SkipWs(s, k.end) IN
              IF At(s, j) # ":" THEN Failed
              ELSE LET r == ScanOnce(s, SkipWs(s, j + 1)) IN
                   IF ~r.ok THEN Failed
                   ELSE LET e == SkipWs(s, r.end)
                            items == PutItem(acc, PyStr(k.val), r.val)
                        IN  CASE At(s, e) = "}" -> Parsed(PyDict(items), e + 1)
                              [] At(s, e) = "," ->
                                    ObjectItems(s, SkipWs(s, e + 1), items)
                              [] OTHER -> Failed

\* scanner.py_make_scanner's _scan_once
ScanOnce(s, i) ==
    LET c == At(s, i) IN
    CASE c = "\"" ->
            LET r == ScanStr(s, i + 1, <<>>) IN
            IF r.ok THEN Parsed(PyStr(r.val), r.end) ELSE Failed
      [] c = "{" ->
            LET j == SkipWs(s, i + 1) IN
            IF At(s, j) = "}" THEN Parsed(PyDict(<<>>), j + 1) ELSE ObjectItems(s, j, <<>>)
      [] c = "[" ->
            LET j == SkipWs(s, i + 1) IN
            IF At(s, j) = "]" THEN Parsed(PyList(<<>>), j + 1) ELSE ArrayItems(s, j, <<>>)
      [] c = "n" /\ Matches(s, i, <<"n", "u", "l", "l">>) -> Parsed(None, i + 4)
      [] c = "t" /\ Matches(s, i, <<"t", "r", "u", "e">>) -> Parsed(PyBool(TRUE), i + 4)
      [] c = "f" /\ Matches(s, i, <<"f", "a", "l", "s", "e">>) -> Parsed(PyBool(FALSE), i + 5)
      [] c = "-" \/ IsDigit(c) -> ScanNumber(s, i)
      [] OTHER -> Failed

\* JSONDecoder.decode: one value, then nothing but whitespace
Loads(s) ==
    LET r == ScanOnce(s, SkipWs(s, 1)) IN
    IF r.ok /\ SkipWs(s, r.end) = Len(s) + 1 THEN r ELSE Failed

(***************************************************************************)
(* The logging module: the root logger, its handlers, the module-level     *)
(* logging.info / logging.error and logging.basicConfig                    *)
(***************************************************************************)
LevelNo(l) ==
    CASE l = "NOTSET" -> 0
      [] l = "INFO" -> 20
      [] l = "WARNING" -> 30
      [] l = "ERROR" -> 40

\* logging.FileHandler(filename, mode): the handler basicConfig(filename=...) adds
FileHandler(filename, mode) ==
    [kind |-> "file", target |-> filename, mode |-> mode, level |-> "NOTSET"]

\* logging.StreamHandler(): writes to sys.stderr, the console
StreamHandler(level) ==
    [kind |-> "stream", target |-> "stderr", mode |-> "", level |-> level]

\* logging.basicConfig(**kwargs): does nothing at all when the root logger
\* already has a handler
BasicConfig(hs, lvl, handler, level) ==
    IF hs = <<>> THEN [handlers |-> <<handler>>, level |-> level]
    ELSE [handlers |-> hs, level |-> lvl]

\* Logger.callHandlers: the sinks a record of level l is written to
Sinks(hs, lvl, l) ==
    IF LevelNo(l) < LevelNo(lvl) THEN <<>>
    ELSE LET pass == SelectSeq(hs, LAMBDA h : LevelNo(l) >= LevelNo(h.level))
         IN  [i \in 1..Len(pass) |-> pass[i].target]

\* logging.info(msg) / logging.error(msg): the module-level functions call
\* basicConfig() first when the root logger has no handler, which installs a
\* stderr handler and leaves the level at WARNING
LoggingCall(hs, lvl, l) ==
    LET cfg == BasicConfig(hs, lvl, StreamHandler("NOTSET"), lvl)
    IN  [handlers |-> cfg.handlers, sinks |-> Sinks(cfg.handlers, cfg.level, l)]

\* a helper that makes one logging call
Log(l, msg, exc) ==
    LET out == LoggingCall(handlers, rootLevel, l) IN
    /\ emitted' = <<[level |-> l, msg |-> msg, exc |-> exc]>>
    /\ delivered' = <<out.sinks>>
    /\ handlers' = out.handlers
    /\ UNCHANGED rootLevel

\* a helper that makes none
NoLog ==
    /\ emitted' = <<>>
    /\ delivered' = <<>>
    /\ UNCHANGED <<handlers, rootLevel>>

(***************************************************************************)
(* Files                                                                   *)
(***************************************************************************)
DataPath == "data.json"
ReadOnlyPath == "readonly.json"
NoDirPath == "missing/data.json"
Paths == {DataPath, ReadOnlyPath, NoDirPath}

NoFile == [exists |-> FALSE, data |-> <<>>]
File(data) == [exists |-> TRUE, data |-> data]

\* open(file_path, "r"): the exception it raises, or "none"
OpenRead(files, p) ==
    IF files[p].exists THEN "none" ELSE "FileNotFoundError"

\* open(file_path, "w"): the exception it raises, or "none" (and then the
\* file exists and is empty)
OpenWrite(files, p) ==
    CASE p = NoDirPath -> "FileNotFoundError"
      [] p = ReadOnlyPath -> "PermissionError"
      [] OTHER -> "none"

(***************************************************************************)
(* read_json and write_json                                                *)
(***************************************************************************)
\* the document a file holds before any helper ran
OldDocument == PyList(<<PyInt(7)>>)

\* what write_json leaves in the file: every chunk json.dump wrote before it
\* returned or raised, flushed when the with block closes the file
Written(r) == Flatten(Iterencode(r, 0).chunks)

ReadJson(p) ==
    /\ op' = "read_json"
    /\ arg' = [path |-> p]
    /\ raised' = "none"
    /\ IF OpenRead(fs, p) # "none"
       THEN result' = None /\ Log("ERROR", "Error reading JSON file", OpenRead(fs, p))
       ELSE LET r == Loads(fs[p].data) IN
            IF r.ok THEN result' = r.val /\ NoLog
            ELSE result' = None /\ Log("ERROR", "Error reading JSON file", "JSONDecodeError")
    /\ UNCHANGED <<fs, constructed, firstLog, writers, overlapped, closedOrder, input>>

\* a write_json whose except clause logs nothing
WriteJsonSilent(p, r) ==
    /\ op' = "write_json"
    /\ arg' = [path |-> p, data |-> r]
    /\ raised' = "none"
    /\ result' = None
    /\ IF OpenWrite(fs, p) # "none"
       THEN fs' = fs /\ NoLog
       ELSE /\ fs' = [fs EXCEPT ![p] = File(Written(r))]
            /\ IF Iterencode(r, 0).exc = "none"
               THEN Log("INFO", "JSON file saved", "none")
               ELSE NoLog
    /\ UNCHANGED <<constructed, firstLog, writers, overlapped, closedOrder, input>>

WriteJson(p, r) ==
    /\ op' = "write_json"
    /\ arg' = [path |-> p, data |-> r]
    /\ raised' = "none"
    /\ result' = None
    /\ IF OpenWrite(fs, p) # "none"
       THEN /\ fs' = fs
            /\ Log("ERROR", "Error writing JSON file", OpenWrite(fs, p))
       ELSE /\ fs' = [fs EXCEPT ![p] = File(Written(r))]
            /\ IF Iterencode(r, 0).exc = "none"
               THEN Log("INFO", "JSON file saved", "none")
               ELSE Log("ERROR", "Error writing JSON file", Iterencode(r, 0).exc)
    /\ UNCHANGED <<constructed, firstLog, writers, overlapped, closedOrder, input>>

(***************************************************************************)
(* The values a caller passes                                              *)
(***************************************************************************)
MaxNodes == 3

Atoms ==
    { None, PyBool(TRUE), PyInt(0), PyInt(-12), PyStr(<<"0">>),
      PyStr(<<"\\", "\"", "e-acute", "\n">>) }

KeyNames == <<PyStr(<<"k">>), PyStr(<<>>), PyStr(<<"\"">>), PyStr(<<"k", "k">>)>>

AsDict(forest) == PyDict([i \in 1..Len(forest) |-> [k |-> KeyNames[i], val |-> forest[i]]])

\* Grown[n].trees: the JSON trees of exactly n nodes; Grown[n].forests: the
\* sequences of trees of n nodes in all
Grown[n \in Nat] ==
    IF n = 0 THEN [trees |-> {}, forests |-> {<<>>}]
    ELSE LET below == Grown[n - 1].forests
             trees == (IF n = 1 THEN Atoms ELSE {})
                      \cup {PyList(f) : f \in below} \cup {AsDict(f) : f \in below}
             TreesOf(k) == IF k = n THEN trees ELSE Grown[k].trees
         IN  [trees |-> trees,
              forests |-> UNION {{<<t>> \o f : t \in TreesOf(k), f \in Grown[n - k].forests}
                                 : k \in 1..n}]

JsonTrees(n) == UNION {Grown[k].trees : k \in 1..n}

\* values that are no JSON-compatible tree: json.dump raises on the first
\* three and writes the fourth with its key turned into a string
NonJson ==
    { PyObject,
      PyList(<<PyInt(0), PyObject>>),
      PyDict(<<[k |-> PyStr(<<"k">>), val |-> PyObject]>>),
      PyDict(<<[k |-> PyInt(1), val |-> PyInt(0)]>>) }

RECURSIVE JsonCompatible(_)
JsonCompatible(o) ==
    CASE IsScalar(o) -> TRUE
      [] o[1] = "list" -> \A i \in 1..Len(o[2]) : JsonCompatible(o[2][i])
      [] o[1] = "dict" ->
            /\ \A i \in 1..Len(o[2]) : o[2][i].k[1] = "str" /\ JsonCompatible(o[2][i].val)
            /\ \A i, j \in 1..Len(o[2]) : o[2][i].k = o[2][j].k => i = j
      [] OTHER -> FALSE

(***************************************************************************)
(* The JSON file helpers                                                   *)
(***************************************************************************)
Idle ==
    /\ handlers = <<>>
    /\ rootLevel = "WARNING"
    /\ constructed = 0
    /\ firstLog = "none"
    /\ op = "none"
    /\ arg = <<>>
    /\ result = None
    /\ raised = "none"
    /\ emitted = <<>>
    /\ delivered = <<>>
    /\ overlapped = FALSE
    /\ closedOrder = <<>>

InitialFiles ==
    { [p \in Paths |-> CASE p = DataPath -> d
                         [] p = ReadOnlyPath -> File(Dumps(OldDocument))
                         [] OTHER -> NoFile]
      : d \in {NoFile, File(Dumps(OldDocument))} }

InitJson ==
    /\ Idle
    /\ fs \in InitialFiles
    /\ input \in JsonTrees(MaxNodes)
    /\ writers = <<>>

NextJson ==
    \/ \E p \in Paths : WriteJson(p, input)
    \/ \E p \in Paths, r \in NonJson : WriteJson(p, r)
    \/ \E p \in Paths : ReadJson(p)

SpecJson == InitJson /\ [][NextJson]_vars

\* the last helper call logged exactly one message, of level l
LoggedOne(l) == Len(emitted) = 1 /\ emitted[1].level = l

\* C2: a write_json(p, r) of a JSON-compatible tree r that succeeded, followed
\* at once by read_json(p), returns a record equal to r (and logs nothing).
C2_RoundTrip ==
    [][(/\ op = "write_json" /\ LoggedOne("INFO") /\ JsonCompatible(arg.data)
        /\ op' = "read_json" /\ arg'.path = arg.path)
       => (result' = arg.data /\ emitted' = <<>>)]_vars

\* C2: a list holding a string with a quote, a backslash, a newline and a
\* non-ASCII character has been written and read back.
C2_Witness ==
    /\ op = "read_json"
    /\ arg.path = DataPath
    /\ input = PyList(<<PyStr(<<"\\", "\"", "e-acute", "\n">>), PyInt(-12)>>)
    /\ result = input

\* whether json.dump can serialize a value: no object json does not know, and
\* no dict key that is a container or such an object
RECURSIVE Serializable(_)
Serializable(o) ==
    CASE IsScalar(o) -> TRUE
      [] o[1] = "list" -> \A i \in 1..Len(o[2]) : Serializable(o[2][i])
      [] o[1] = "dict" -> \A i \in 1..Len(o[2]) : IsScalar(o[2][i].k) /\ Serializable(o[2][i].val)
      [] OTHER -> FALSE

CannotOpen(p) == p \in {ReadOnlyPath, NoDirPath}

\* what read_json(p) would return from the files as they are
WouldRead(files, p) ==
    IF files[p].exists /\ Loads(files[p].data).ok THEN Loads(files[p].data).val ELSE None

\* C10 as claimed: a write_json(p, r) that fails logs one error and no info
\* message, and leaves the file at p such that a read_json(p) after it
\* returns what it returned before.
C10_FailedWriteKeepsFile ==
    [][(op' = "write_json" /\ (CannotOpen(arg'.path) \/ ~Serializable(arg'.data)))
       => /\ Len(emitted') = 1 /\ emitted'[1].level = "ERROR"
          /\ WouldRead(fs', arg'.path) = WouldRead(fs, arg'.path)]_vars

\* C10 (amended): a write_json that fails logs one error and no info
\* message.  When the path cannot be opened, every file is left as it was.
\* When the path opens and the record cannot be serialized, the file at the
\* path has been truncated and holds an incomplete document, which read_json
\* cannot parse; the other files are left as they were.
C10_FailedWrite ==
    [][(op' = "write_json" /\ (CannotOpen(arg'.path) \/ ~Serializable(arg'.data)))
       => /\ Len(emitted') = 1 /\ emitted'[1].level = "ERROR"
          /\ CannotOpen(arg'.path) => fs' = fs
          /\ ~CannotOpen(arg'.path) =>
                /\ fs'[arg'.path].exists
                /\ ~Loads(fs'[arg'.path].data).ok
                /\ \A q \in Paths \ {arg'.path} : fs'[q] = fs[q]]_vars

\* C10: a write_json of a list with an unserializable item has failed and
\* left the opening of the list in the file.
C10_Witness ==
    /\ op = "write_json"
    /\ arg.path = DataPath
    /\ arg.data = PyList(<<PyInt(0), PyObject>>)
    /\ LoggedOne("ERROR")
    /\ emitted[1].exc = "TypeError"
    /\ fs[DataPath].data = <<"[", "\n", " ", " ", " ", " ", "0", ",", "\n", " ", " ", " ", " ">>

(***************************************************************************)
(* PythonHelper(log_file) and setup_logging                                *)
(***************************************************************************)
MaxConstructions == 3

LogFiles == {"app.log", "other.log"}

\* setup_logging(log_file): basicConfig(filename=log_file, filemode="a",
\* level=INFO), then one more console handler at level INFO
SetupLogging(hs, lvl, log_file) ==
    LET cfg == BasicConfig(hs, lvl, FileHandler(log_file, "a"), "INFO")
    IN  [handlers |-> Append(cfg.handlers, StreamHandler("INFO")), level |-> cfg.level]

Construct(log_file) ==
    /\ constructed < MaxConstructions
    /\ op' = "__init__"
    /\ arg' = [log_file |-> log_file]
    /\ result' = None
    /\ raised' = "none"
    /\ handlers' = SetupLogging(handlers, rootLevel, log_file).handlers
    /\ rootLevel' = SetupLogging(handlers, rootLevel, log_file).level
    /\ emitted' = <<>>
    /\ delivered' = <<>>
    /\ constructed' = constructed + 1
    /\ firstLog' = IF constructed = 0 THEN log_file ELSE firstLog
    /\ UNCHANGED <<fs, writers, overlapped, closedOrder, input>>

InitLog ==
    /\ Idle
    /\ fs \in InitialFiles
    /\ input \in {OldDocument, PyObject}
    /\ writers = <<>>

NextLog ==
    \/ \E f \in LogFiles : Construct(f)
    \/ \E p \in Paths : ReadJson(p)
    \/ \E p \in Paths : WriteJson(p, input)

SpecLog == InitLog /\ [][NextLog]_vars

FileSinks == {i \in 1..Len(handlers) : handlers[i].kind = "file"}
ConsoleSinks == {i \in 1..Len(handlers) : handlers[i].kind = "stream"}

\* the sinks an info or error record logged now would be written to
WouldReach(l) == Range(Sinks(handlers, rootLevel, l))

\* C7: after the first PythonHelper(log_file=p), whatever was called before
\* it, the root logger has an append-mode file sink at p and a console sink,
\* and an info or an error message reaches both the file at p and the console.
C7_TwoSinksAfterConstruction ==
    (op = "__init__" /\ constructed = 1) =>
        /\ \E i \in FileSinks : handlers[i].target = arg.log_file /\ handlers[i].mode = "a"
        /\ ConsoleSinks # {}
        /\ \A l \in {"INFO", "ERROR"} : {arg.log_file, "stderr"} \subseteq WouldReach(l)

\* the copies of the record of the last logging call that went to log files
FileCopies == {i \in 1..Len(delivered[1]) : delivered[1][i] \in LogFiles}

\* C9: after n >= 1 constructions the root logger has exactly one file sink,
\* that of the first construction, and one console sink per construction, so
\* each message a helper logs is written exactly once to the log file.
C9_OneFileSink ==
    constructed >= 1 =>
        /\ Cardinality(FileSinks) = 1
        /\ \A i \in FileSinks : handlers[i].target = firstLog
        /\ Cardinality(ConsoleSinks) = constructed
        /\ emitted # <<>> => Cardinality(FileCopies) = 1

(***************************************************************************)
(* Two write_json calls on the same path, running concurrently.  Each      *)
(* opens the file itself (its own descriptor and offset), hands the chunks *)
(* of json.dump to its buffered text file, and closes; nothing locks the   *)
(* file.                                                                   *)
(***************************************************************************)
\* the capacity of a file object's write buffer, in characters (scaled
\* down from io.DEFAULT_BUFFER_SIZE)
BufferSize == 12

Writers == {1, 2}

RaceDocuments ==
    { PyInt(0),
      PyList(<<PyInt(-12)>>),
      PyList(<<None, PyBool(TRUE)>>),
      PyDict(<<[k |-> PyStr(<<"k">>), val |-> PyStr(<<"0">>)]>>) }

\* a write that ignores the offset and lands at the end of the file, as
\* under O_APPEND
WriteAtAppend(data, pos, text) == data \o text

\* write(fd, text) at offset pos: the bytes replace what is there, the file
\* grows as needed, and a gap left by another writer's truncation reads as
\* NUL bytes
WriteAt(data, pos, text) ==
    LET end == IF pos + Len(text) > Len(data) THEN pos + Len(text) ELSE Len(data)
    IN  [i \in 1..end |->
            IF i > pos /\ i <= pos + Len(text) THEN text[i - pos]
            ELSE IF i <= Len(data) THEN data[i]
            ELSE "NUL"]

InProgress(w) == writers[w].pc = "writing"
AllDone == \A w \in Writers : writers[w].pc = "done"

\* with open(file_path, "w") as f: the file is created or truncated
RaceOpen(w) ==
    /\ writers[w].pc = "start"
    /\ fs' = [fs EXCEPT ![DataPath] = File(<<>>)]
    /\ writers' = [writers EXCEPT ![w].pc = "writing",
                                  ![w].chunks = Iterencode(writers[w].data, 0).chunks]
    /\ overlapped' = (overlapped \/ \E v \in Writers \ {w} : InProgress(v))
    /\ UNCHANGED <<handlers, rootLevel, constructed, firstLog, op, arg, result, raised,
                   emitted, delivered, closedOrder, input>>

\* f.write(chunk): the chunk joins the buffer; a buffer over its capacity is
\* written out at the writer's own offset
RaceWrite(w) ==
    /\ InProgress(w)
    /\ writers[w].chunks # <<>>
    /\ LET buf == writers[w].buf \o Head(writers[w].chunks) IN
       IF Len(buf) > BufferSize
       THEN /\ fs' = [fs EXCEPT ![DataPath].data = WriteAt(@, writers[w].pos, buf)]
            /\ writers' = [writers EXCEPT ![w].chunks = Tail(@), ![w].buf = <<>>,
                                          ![w].pos = @ + Len(buf)]
       ELSE /\ fs' = fs
            /\ writers' = [writers EXCEPT ![w].chunks = Tail(@), ![w].buf = buf]
    /\ UNCHANGED <<handlers, rootLevel, constructed, firstLog, op, arg, result, raised,
                   emitted, delivered, overlapped, closedOrder, input>>

\* the end of the with block flushes the buffer and closes the file; then
\* logging.info reports the save
RaceClose(w) ==
    /\ InProgress(w)
    /\ writers[w].chunks = <<>>
    /\ fs' = [fs EXCEPT ![DataPath].data = WriteAt(@, writers[w].pos, writers[w].buf)]
    /\ writers' = [writers EXCEPT ![w].pc = "done", ![w].buf = <<>>,
                                  ![w].pos = @ + Len(writers[w].buf)]
    /\ closedOrder' = Append(closedOrder, w)
    /\ op' = "write_json"
    /\ arg' = [path |-> DataPath, data |-> writers[w].data]
    /\ result' = None
    /\ raised' = "none"
    /\ Log("INFO", "JSON file saved", "none")
    /\ UNCHANGED <<constructed, firstLog, overlapped, input>>

\* a read_json of the path once both calls have returned
RaceRead ==
    /\ AllDone
    /\ ReadJson(DataPath)

InitRace ==
    /\ Idle
    /\ fs \in InitialFiles
    /\ input = None
    /\ writers \in [Writers -> {[pc |-> "start", data |-> d, chunks |-> <<>>, buf |-> <<>>,
                                 pos |-> 0] : d \in RaceDocuments}]

\* the steps of one of the calls
WriterStep(w) == RaceOpen(w) \/ RaceWrite(w) \/ RaceClose(w)

NextRace ==
    \/ \E w \in Writers : RaceOpen(w)
    \/ \E w \in Writers : RaceWrite(w)
    \/ \E w \in Writers : RaceClose(w)
    \/ RaceRead

\* a call that can take a step eventually takes one: each runs in a thread
\* or process of its own, and none waits for the other
SpecRace == InitRace /\ [][NextRace]_vars /\ \A w \in Writers : WF_vars(WriterStep(w))

RaceFile == fs[DataPath].data

\* C8 as claimed: whatever the interleaving, once both calls have returned
\* the file is the complete serialization of one of the two records, and a
\* read_json then returns that record.
C8_LastWriteWins ==
    AllDone =>
        /\ \E w \in Writers : RaceFile = Dumps(writers[w].data)
        /\ op = "read_json" => \E w \in Writers : result = writers[w].data

\* what holds of the file once both calls have returned: every character is
\* the character one of the two serializations has at that position, or the
\* NUL of a gap; and when the calls did not overlap, the file is the
\* complete serialization of the record written last
RaceOutcome ==
    AllDone =>
        /\ Len(RaceFile) <= Len(Dumps(writers[1].data))
           \/ Len(RaceFile) <= Len(Dumps(writers[2].data))
        /\ \A i \in 1..Len(RaceFile) :
              \/ RaceFile[i] = "NUL"
              \/ \E w \in Writers : RaceFile[i] = At(Dumps(writers[w].data), i)
        /\ ~overlapped =>
              /\ RaceFile = Dumps(writers[closedOrder[2]].data)
              /\ op = "read_json" => result = writers[closedOrder[2]].data

\* C8 (amended): both calls return, and then RaceOutcome holds.
C8_RaceSettles == []RaceOutcome /\ <>AllDone

\* C8: two overlapping calls have returned and left a file that is neither
\* serialization.
C8_Witness ==
    /\ AllDone
    /\ overlapped
    /\ op = "read_json"
    /\ \A w \in Writers : RaceFile # Dumps(writers[w].data)

(***************************************************************************)
(* send_get_request and send_post_request                                  *)
(***************************************************************************)
Statuses == {200, 201, 299, 300, 304, 399, 400, 404, 499, 500, 503, 599}

Bodies ==
    { Dumps(OldDocument),
      Dumps(PyDict(<<[k |-> PyStr(<<"k">>), val |-> PyBool(TRUE)]>>)),
      <<>>,
      <<"<", "h", "t", "m", "l", ">">> }

\* what requests.get / requests.post meets on the network: no connection,
\* no answer within the timeout, or the final response
Exchanges ==
    {[kind |-> "ConnectionError", status |-> 0, body |-> <<>>],
     [kind |-> "Timeout", status |-> 0, body |-> <<>>]}
    \cup {[kind |-> "response", status |-> st, body |-> b] : st \in Statuses, b \in Bodies}

NotSent == [kind |-> "unsent", status |-> 0, body |-> <<>>]

\* a status check that takes only the client errors for errors
RaiseForClientError(status) == 400 <= status /\ status < 500

\* Response.raise_for_status(): HTTPError for a 4xx or 5xx status, and for
\* no other
RaiseForStatus(status) == 400 <= status /\ status < 600

\* the three lines of the try block: the value returned, or the exception
\* raised.  Response.json() raises requests.exceptions.JSONDecodeError on a
\* body that is not JSON
Attempt(x) ==
    CASE x.kind # "response" -> [exc |-> x.kind, val |-> None]
      [] RaiseForStatus(x.status) -> [exc |-> "HTTPError", val |-> None]
      [] ~Loads(x.body).ok -> [exc |-> "JSONDecodeError", val |-> None]
      [] OTHER -> [exc |-> "none", val |-> Loads(x.body).val]

\* a handler that lets the decoding error of Response.json() through
IsRequestExceptionNarrow(exc) ==
    exc \in {"ConnectionError", "Timeout", "HTTPError"}

\* except requests.exceptions.RequestException: the connection errors, the
\* timeouts, HTTPError and requests.exceptions.JSONDecodeError are all
\* subclasses of it
IsRequestException(exc) ==
    exc \in {"ConnectionError", "Timeout", "HTTPError", "JSONDecodeError"}

\* the except clause and what follows it
Outcome(name, a) ==
    /\ result' = a.val
    /\ IF a.exc = "none" THEN raised' = "none" /\ NoLog
       ELSE IF IsRequestException(a.exc)
       THEN raised' = "none" /\ Log("ERROR", name, a.exc)
       ELSE raised' = a.exc /\ NoLog

SendGetRequest(x) ==
    /\ op' = "send_get_request"
    /\ arg' = [exchange |-> x]
    /\ Outcome("GET request error", Attempt(x))
    /\ UNCHANGED <<fs, constructed, firstLog, writers, overlapped, closedOrder, input>>

\* requests.post(url, json=data, ...) serializes data before it sends
\* anything; the TypeError of a value json cannot serialize is no
\* RequestException
SendPostRequest(data, x) ==
    /\ op' = "send_post_request"
    /\ IF Iterencode(data, 0).exc # "none"
       THEN /\ arg' = [data |-> data, exchange |-> NotSent]
            /\ Outcome("POST request error", [exc |-> Iterencode(data, 0).exc, val |-> None])
       ELSE /\ arg' = [data |-> data, exchange |-> x]
            /\ Outcome("POST request error", Attempt(x))
    /\ UNCHANGED <<fs, constructed, firstLog, writers, overlapped, closedOrder, input>>

InitNet ==
    /\ Idle
    /\ fs \in InitialFiles
    /\ input \in {None, OldDocument, PyObject}
    /\ writers = <<>>

NextNet ==
    \/ \E x \in Exchanges : SendGetRequest(x)
    \/ \E x \in Exchanges : SendPostRequest(input, x)

SpecNet == InitNet /\ [][NextNet]_vars

IsRequest == op \in {"send_get_request", "send_post_request"}
Failure == result = None /\ raised = "none" /\ Len(emitted) = 1 /\ emitted[1].level = "ERROR"

\* C3 as claimed: send_get_request returns the parsed body only for a 2xx
\* response; for every status outside 200-299 and for every network or
\* timeout error it logs an error and returns None.
C3_Non2xxFails ==
    (op = "send_get_request" /\ ~(arg.exchange.kind = "response"
                                  /\ arg.exchange.status \in 200..299)) => Failure

\* C3 (amended): send_get_request returns the parsed body only for a
\* response whose status is not 4xx or 5xx; for every 4xx or 5xx response and
\* for every network or timeout error it logs one error and returns None.
C3_ErrorStatusFails ==
    op = "send_get_request" =>
        /\ (arg.exchange.kind # "response" \/ arg.exchange.status \in 400..599) => Failure
        /\ (raised = "none" /\ emitted = <<>>) =>
              /\ arg.exchange.kind = "response"
              /\ arg.exchange.status \notin 400..599
              /\ Loads(arg.exchange.body).ok
              /\ result = Loads(arg.exchange.body).val

\* C3: a GET answered 304 with a JSON body has returned the parsed body.
C3_Witness ==
    /\ op = "send_get_request"
    /\ arg.exchange.status = 304
    /\ result = OldDocument
    /\ emitted = <<>>

\* the four error classes of C4
ErrorClass(x) ==
    \/ x.kind \in {"ConnectionError", "Timeout"}
    \/ x.kind = "response" /\ x.status \in 400..599
    \/ x.kind = "response" /\ ~Loads(x.body).ok

\* C4: in send_get_request and send_post_request a connection error, a
\* timeout, an HTTP error status and a body that is not valid JSON all end
\* the attempt the same way: None is returned, one error is logged, and no
\* exception reaches the caller.
C4_UniformFailure ==
    (IsRequest /\ ErrorClass(arg.exchange)) => Failure

\* C4: a 200 response whose body is not JSON has ended in None and one
\* logged error.
C4_Witness ==
    /\ IsRequest
    /\ arg.exchange.kind = "response"
    /\ arg.exchange.status = 200
    /\ arg.exchange.body = <<"<", "h", "t", "m", "l", ">">>
    /\ Failure
    /\ emitted[1].exc = "JSONDecodeError"

(***************************************************************************)
(* remove_duplicates                                                       *)
(***************************************************************************)
MaxLen == 3

\* every sequence over S of length at most n
RECURSIVE SeqsUpTo(_, _)
SeqsUpTo(S, n) ==
    IF n = 0 THEN {<<>>}
    ELSE LET shorter == SeqsUpTo(S, n - 1)
         IN  shorter \cup {Append(q, x) : q \in {r \in shorter : Len(r) = n - 1}, x \in S}

\* hash(x) raises TypeError for a list, a dict and a set
Hashable(o) == IsScalar(o)

\* a list(...) that skips the set
ListOfSetKeepAll(items) == {items}

\* the orders a set can be listed in
RECURSIVE Orderings(_)
Orderings(S) ==
    IF S = {} THEN {<<>>}
    ELSE UNION {{<<x>> \o q : q \in Orderings(S \ {x})} : x \in S}

\* list(set(items)): each distinct element once, in the order the hash table
\* happens to hold them
ListOfSet(items) == Orderings(Range(items))

\* what iterating over a value yields, or the TypeError of a value that
\* cannot be iterated
Iterate(o) ==
    CASE o[1] = "list" -> [exc |-> "none", items |-> o[2]]
      [] o[1] = "str" -> [exc |-> "none", items |-> [i \in 1..Len(o[2]) |-> PyStr(<<o[2][i]>>)]]
      [] o[1] = "dataframe" ->
            [exc |-> "none", items |-> [i \in 1..Len(o[2].columns) |-> PyStr(o[2].columns[i])]]
      [] OTHER -> [exc |-> "TypeError", items |-> <<>>]

RemoveDuplicates(data) ==
    /\ op' = "remove_duplicates"
    /\ arg' = [data |-> data]
    /\ NoLog
    /\ IF Iterate(data).exc = "none" /\ \A x \in Range(Iterate(data).items) : Hashable(x)
       THEN /\ raised' = "none"
            /\ \E q \in ListOfSet(Iterate(data).items) : result' = PyList(q)
       ELSE /\ raised' = "TypeError"
            /\ result' = None
    /\ UNCHANGED <<fs, constructed, firstLog, writers, overlapped, closedOrder, input>>

(***************************************************************************)
(* fill_missing_values                                                     *)
(***************************************************************************)
MaxRows == 2

Columns == <<"status", "name">>

NaN == <<"nan", <<>>>>
Unknown == PyStr(<<"U", "n", "k", "n", "o", "w", "n">>)

\* a DataFrame: its column labels and its rows, each row a cell per column
DataFrame(rows) == <<"dataframe", [columns |-> Columns, rows |-> rows]>>

\* pandas.isna
IsMissing(cell) == cell \in {NaN, None}

\* Series.fillna(fill_value) on the column: the missing cells take the value
Filled(df, column_name, fill_value) ==
    [df EXCEPT ![2].rows =
        [i \in 1..Len(@) |->
            [@[i] EXCEPT ![column_name] = IF IsMissing(@) THEN fill_value ELSE @]]]

\* df[column_name].fillna(fill_value, inplace=True) is a chained assignment:
\* it fills the Series that df[column_name] returns.  Without Copy-on-Write
\* (pandas 1 and 2 by default) that Series is the column of df; with
\* Copy-on-Write (pandas 3, or the option in pandas 2) it is a temporary
\* object and df keeps its missing cells
ChainedFillna(df, column_name, fill_value, copy_on_write) ==
    IF copy_on_write THEN df ELSE Filled(df, column_name, fill_value)

FillMissingValues(df, column_name, fill_value, copy_on_write) ==
    /\ op' = "fill_missing_values"
    /\ IF df[1] # "dataframe"
       THEN /\ arg' = [df |-> df, column_name |-> column_name, fill_value |-> fill_value,
                       copy_on_write |-> copy_on_write]
            /\ raised' = "AttributeError"
            /\ result' = None
            /\ NoLog
       ELSE LET after == IF column_name \in Range(df[2].columns)
                         THEN ChainedFillna(df, column_name, fill_value, copy_on_write)
                         ELSE df
            IN  /\ arg' = [df |-> after, column_name |-> column_name,
                           fill_value |-> fill_value, copy_on_write |-> copy_on_write]
                /\ raised' = "none"
                /\ result' = after
                /\ IF column_name \in Range(df[2].columns)
                   THEN Log("INFO", "Missing values in column filled", "none")
                   ELSE NoLog
    /\ UNCHANGED <<fs, constructed, firstLog, writers, overlapped, closedOrder, input>>

(***************************************************************************)
(* convert_date_format, with its default formats                           *)
(***************************************************************************)
IsLeap(y) == (y % 4 = 0 /\ y % 100 # 0) \/ y % 400 = 0

DaysIn(y, m) ==
    CASE m \in {4, 6, 9, 11} -> 30
      [] m = 2 -> IF IsLeap(y) THEN 29 ELSE 28
      [] OTHER -> 31

AllDigits(q) == \A i \in 1..Len(q) : IsDigit(q[i])

RECURSIVE Number(_)
Number(q) == IF q = <<>> THEN 0 ELSE 10 * Number(SubSeq(q, 1, Len(q) - 1)) + DigitValue(q[Len(q)])

NoDate == [ok |-> FALSE, y |-> 0, m |-> 0, d |-> 0]

\* datetime.strptime(text, "%Y-%m-%d"): four digits, then a month and a day
\* of one or two digits, nothing else, and a date that exists
Strptime(text) ==
    LET dash == IF At(text, 7) = "-" THEN 7 ELSE 8
        mm == SubSeq(text, 6, dash - 1)
        dd == SubSeq(text, dash + 1, Len(text))
    IN  IF /\ Len(text) >= 8
           /\ AllDigits(SubSeq(text, 1, 4))
           /\ text[5] = "-"
           /\ At(text, dash) = "-"
           /\ Len(dd) \in {1, 2}
           /\ AllDigits(mm) /\ AllDigits(dd)
           /\ Number(SubSeq(text, 1, 4)) >= 1
           /\ Number(mm) \in 1..12
           /\ Number(dd) \in 1..DaysIn(Number(SubSeq(text, 1, 4)), Number(mm))
        THEN [ok |-> TRUE, y |-> Number(SubSeq(text, 1, 4)), m |-> Number(mm), d |-> Number(dd)]
        ELSE NoDate

TwoDigits(n) == IF n < 10 THEN <<"0">> \o NatRepr(n) ELSE NatRepr(n)

\* date_obj.strftime("%d-%m-%Y"), for a year of four digits
Strftime(date) == TwoDigits(date.d) \o <<"-">> \o TwoDigits(date.m) \o <<"-">> \o NatRepr(date.y)

ConvertDateFormat(date_str) ==
    /\ op' = "convert_date_format"
    /\ arg' = [date_str |-> date_str]
    /\ IF date_str[1] # "str"
       THEN raised' = "TypeError" /\ result' = None /\ NoLog
       ELSE /\ raised' = "none"
            /\ IF Strptime(date_str[2]).ok
               THEN result' = PyStr(Strftime(Strptime(date_str[2]))) /\ NoLog
               ELSE result' = None /\ Log("ERROR", "Error in date conversion", "ValueError")
    /\ UNCHANGED <<fs, constructed, firstLog, writers, overlapped, closedOrder, input>>

(***************************************************************************)
(* The data helpers                                                        *)
(***************************************************************************)
Elements == {PyInt(1), PyInt(2), PyInt(3), PyList(<<>>)}

Example == PyList(<<PyInt(1), PyInt(2), PyInt(2), PyInt(3), PyInt(3), PyInt(3)>>)

Cells == {PyStr(<<"A">>), NaN, None}

DateStrings ==
    { <<"2", "0", "2", "4", "-", "0", "1", "-", "1", "5">>,
      <<"2", "0", "2", "4", "-", "1", "-", "5">>,
      <<"2", "0", "2", "3", "-", "0", "2", "-", "2", "9">>,
      <<"n", "o", "t", "-", "a", "-", "d", "a", "t", "e">> }

DataInputs ==
    {PyList(q) : q \in SeqsUpTo(Elements, MaxLen)}
    \cup {Example, None}
    \cup {DataFrame(rows) : rows \in SeqsUpTo([Range(Columns) -> Cells], MaxRows)}
    \cup {PyStr(d) : d \in DateStrings}

InitData ==
    /\ Idle
    /\ fs \in InitialFiles
    /\ input \in DataInputs
    /\ writers = <<>>

\* (a string is not passed to remove_duplicates: the orders of its characters
\* are too many to enumerate)
NextData ==
    \/ input[1] # "str" /\ RemoveDuplicates(input)
    \/ \E c \in Range(Columns) \cup {"absent"}, f \in {Unknown, PyInt(0)}, cow \in BOOLEAN :
          FillMissingValues(input, c, f, cow)
    \/ ConvertDateFormat(input)

SpecData == InitData /\ [][NextData]_vars

\* C1 as claimed: whatever the input, a helper returns normally; no exception
\* reaches the caller.
C1_NeverRaises == raised = "none"

\* C5 as claimed: fill_missing_values returns the dataset it was passed; for
\* a column of the dataset, every missing cell of the column now holds
\* fill_value in that dataset, every other cell is unchanged and one info
\* message is logged; for any other column name the dataset is unchanged and
\* nothing is logged.
C5_FillsInPlace ==
    (op = "fill_missing_values" /\ input[1] = "dataframe") =>
        /\ raised = "none"
        /\ result = arg.df
        /\ Len(arg.df[2].rows) = Len(input[2].rows)
        /\ IF arg.column_name \in Range(input[2].columns)
           THEN /\ LoggedOne("INFO")
                /\ \A i \in 1..Len(input[2].rows), c \in Range(Columns) :
                      arg.df[2].rows[i][c] =
                         IF c = arg.column_name /\ IsMissing(input[2].rows[i][c])
                         THEN arg.fill_value
                         ELSE input[2].rows[i][c]
           ELSE arg.df = input /\ emitted = <<>>

\* C6: for a sequence of hashable elements remove_duplicates returns a list
\* that holds every distinct element of the input exactly once and nothing
\* else, so as many elements as the input has distinct ones; the input is
\* not modified.
C6_DistinctOnce ==
    (op = "remove_duplicates" /\ input[1] = "list" /\ \A x \in Range(input[2]) : IsScalar(x)) =>
        /\ raised = "none"
        /\ result[1] = "list"
        /\ Range(result[2]) = Range(input[2])
        /\ Len(result[2]) = Cardinality(Range(input[2]))
        /\ arg.data = input

\* C6: remove_duplicates([1,2,2,3,3,3]) has returned a list of length 3
\* holding 1, 2 and 3.
C6_Witness ==
    /\ op = "remove_duplicates"
    /\ raised = "none"
    /\ input = Example
    /\ Len(result[2]) = 3
    /\ Range(result[2]) = {PyInt(1), PyInt(2), PyInt(3)}

====
